---- MODULE Spec2Model ----
(***************************************************************************)
(* Model of internal/docs/component.go: ComponentSpec.AsMarkdown and the   *)
(* helpers it calls (iClone, createOrderedConfig, genExampleConfigs, the   *)
(* walkFields closure and the per-field default / type resolution loop).   *)
(*                                                                         *)
(* Go strings that the code inspects byte by byte (Summary, Description,   *)
(* field names and dotted paths, map keys) are sequences of one-character  *)
(* strings.  Opaque text (scalar literals, JSON renderings, type labels)   *)
(* is a TLA+ string.                                                       *)
(*                                                                         *)
(* A Go interface{} value is either an immediate scalar or a reference to  *)
(* a map / slice object on the heap, so that in-place mutation and         *)
(* aliasing between the caller's example and the sanitised copy are        *)
(* observable.                                                             *)
(***************************************************************************)
EXTENDS Integers, Sequences, FiniteSets, TLC

VARIABLES
    c,                  \* the ComponentSpec receiver (read only)
    nest,               \* AsMarkdown argument
    fullConfigExample,  \* AsMarkdown argument: a value (scalar or reference)
    example0,           \* the example as the caller built it (tree form)
    heap,               \* Go heap: sequence of map / slice objects
    pc,                 \* position inside AsMarkdown
    advConfig,          \* genExampleConfigs local
    ctx,                \* componentContext being filled
    flattenedFields,    \* AsMarkdown local
    i,                  \* index of the range loop over flattenedFields
    result              \* what the call produced

vars == <<c, nest, fullConfigExample, example0, heap, pc, advConfig, ctx,
          flattenedFields, i, result>>

----------------------------------------------------------------------------
(* Strings *)

NL == "\n"

\* byte order of the characters that occur in keys
Alphabet ==
    <<".", "<", ">", "[", "]", "a", "b", "c", "d", "e", "f", "g", "h", "i", "j",
      "k", "l", "m", "n", "o", "p", "q", "r", "s", "t", "u", "v", "w", "x", "y", "z">>

Ord(ch) == CHOOSE n \in 1..Len(Alphabet) : Alphabet[n] = ch

RECURSIVE LexLess(_, _)
LexLess(s, t) ==
    IF t = <<>> THEN FALSE
    ELSE IF s = <<>> THEN TRUE
    ELSE IF Head(s) = Head(t) THEN LexLess(Tail(s), Tail(t))
    ELSE Ord(Head(s)) < Ord(Head(t))

RECURSIVE Join(_)
Join(s) == IF s = <<>> THEN "" ELSE Head(s) \o Join(Tail(s))

\* strings.Contains(s, sub)
StringsContains(s, sub) ==
    \E n \in 1..(Len(s) - Len(sub) + 1) : SubSeq(s, n, n + Len(sub) - 1) = sub

\* strings.Split(s, ".")
RECURSIVE SplitFrom(_, _)
SplitFrom(s, cur) ==
    IF s = <<>> THEN <<cur>>
    ELSE IF Head(s) = "." THEN <<cur>> \o SplitFrom(Tail(s), <<>>)
    ELSE SplitFrom(Tail(s), Append(cur, Head(s)))

StringsSplit(s) == SplitFrom(s, <<>>)

\* keys of a map in the order yaml and json encoders emit them
RECURSIVE SortedKeys(_)
SortedKeys(S) ==
    IF S = {} THEN <<>>
    ELSE LET least == CHOOSE x \in S : \A y \in S \ {x} : LexLess(x, y)
         IN  <<least>> \o SortedKeys(S \ {least})

----------------------------------------------------------------------------
(* Values, trees and the heap *)

Nil == [k |-> "nil", v |-> ""]
Scalar(kind, text) == [k |-> kind, v |-> text]
Ref(a) == [k |-> "ref", a |-> a]
MapTree(m) == [k |-> "map", m |-> m]
SeqTree(s) == [k |-> "seq", s |-> s]

IsRef(v) == v.k = "ref"

\* allocate one object
New(h, obj) == [h |-> Append(h, obj), v |-> Ref(Len(h) + 1)]

\* Load builds the heap form of a tree (the caller constructing the example)
RECURSIVE Load(_, _), LoadMap(_, _, _, _), LoadSeq(_, _, _)
Load(h, t) ==
    IF t.k = "map" THEN
        LET r == LoadMap(h, t.m, SortedKeys(DOMAIN t.m), <<>>)
        IN  New(r.h, [k |-> "map", m |-> r.m])
    ELSE IF t.k = "seq" THEN
        LET r == LoadSeq(h, t.s, <<>>)
        IN  New(r.h, [k |-> "seq", s |-> r.s])
    ELSE [h |-> h, v |-> t]
LoadMap(h, m, keys, acc) ==
    IF keys = <<>> THEN [h |-> h, m |-> acc]
    ELSE LET r == Load(h, m[Head(keys)])
         IN  LoadMap(r.h, m, Tail(keys), acc @@ (Head(keys) :> r.v))
LoadSeq(h, s, acc) ==
    IF s = <<>> THEN [h |-> h, s |-> acc]
    ELSE LET r == Load(h, Head(s))
         IN  LoadSeq(r.h, Tail(s), Append(acc, r.v))

\* the tree a value denotes in a heap
RECURSIVE Snapshot(_, _)
Snapshot(h, v) ==
    IF IsRef(v) THEN
        LET obj == h[v.a] IN
        IF obj.k = "map"
        THEN MapTree([key \in DOMAIN obj.m |-> Snapshot(h, obj.m[key])])
        ELSE SeqTree([n \in 1..Len(obj.s) |-> Snapshot(h, obj.s[n])])
    ELSE v

\* func iClone(root interface{}) interface{}
RECURSIVE iCloneDeep(_, _), iCloneMap(_, _, _, _), iCloneSlice(_, _, _)
iCloneDeep(h, root) ==
    IF IsRef(root) THEN
        LET t == h[root.a] IN
        IF t.k = "map" THEN
            LET r == iCloneMap(h, t.m, SortedKeys(DOMAIN t.m), <<>>)
            IN  New(r.h, [k |-> "map", m |-> r.m])
        ELSE
            LET r == iCloneSlice(h, t.s, <<>>)
            IN  New(r.h, [k |-> "seq", s |-> r.s])
    ELSE [h |-> h, v |-> root]
iCloneMap(h, m, keys, newMap) ==
    IF keys = <<>> THEN [h |-> h, m |-> newMap]
    ELSE LET r == iCloneDeep(h, m[Head(keys)])
         IN  iCloneMap(r.h, m, Tail(keys), newMap @@ (Head(keys) :> r.v))
iCloneSlice(h, s, newSlice) ==
    IF s = <<>> THEN [h |-> h, s |-> newSlice]
    ELSE LET r == iCloneDeep(h, Head(s))
         IN  iCloneSlice(r.h, Tail(s), Append(newSlice, r.v))

\* a clone that copies only the top-level map or slice
iCloneShallow(h, root) ==
    IF IsRef(root) THEN New(h, h[root.a]) ELSE [h |-> h, v |-> root]

iClone(h, root) == iCloneDeep(h, root)

----------------------------------------------------------------------------
(* Schema Tree *)

\* a FieldSpec; Default = Nil is Go's nil interface
FieldSpec(name, type, description, default, advanced, deprecated, isArray, isMap, examples, children) ==
    [Name |-> name, Type |-> type, Description |-> description,
     Default |-> default, Advanced |-> advanced, Deprecated |-> deprecated,
     IsArray |-> isArray, IsMap |-> isMap, Examples |-> examples,
     Children |-> children]

\* the two FieldFilter closures of genExampleConfigs
FilterAdvanced(f) == ~f.Deprecated
FilterCommon(f) == ~f.Advanced /\ ~f.Deprecated
ApplyFilter(filter, f) ==
    IF filter = "advanced" THEN FilterAdvanced(f) ELSE FilterCommon(f)

Names(fields) == {fields[n].Name : n \in 1..Len(fields)}

----------------------------------------------------------------------------
(* Sanitizer: prunes, in place, the keys whose FieldSpec fails the filter *)

RECURSIVE SanitiseFields(_, _, _, _), SanitiseValue(_, _, _, _),
          SanitiseAll(_, _, _, _)
SanitiseFields(h, a, fields, filter) ==
    IF fields = <<>> THEN h
    ELSE
        LET f == Head(fields)
            m == h[a].m
        IN  IF f.Name \notin DOMAIN m
            THEN SanitiseFields(h, a, Tail(fields), filter)
            ELSE IF ~ApplyFilter(filter, f)
            THEN SanitiseFields(
                    [h EXCEPT ![a].m = [key \in DOMAIN m \ {f.Name} |-> m[key]]],
                    a, Tail(fields), filter)
            ELSE IF Len(f.Children) > 0
            THEN SanitiseFields(SanitiseValue(h, m[f.Name], f, filter),
                                a, Tail(fields), filter)
            ELSE SanitiseFields(h, a, Tail(fields), filter)
SanitiseValue(h, v, f, filter) ==
    IF ~IsRef(v) THEN h
    ELSE
        LET obj == h[v.a] IN
        IF f.IsArray THEN
            IF obj.k = "seq" THEN SanitiseAll(h, obj.s, f.Children, filter)
            ELSE h
        ELSE IF f.IsMap THEN
            IF obj.k = "map"
            THEN LET keys == SortedKeys(DOMAIN obj.m)
                 IN  SanitiseAll(h, [n \in 1..Len(keys) |-> obj.m[keys[n]]],
                                 f.Children, filter)
            ELSE h
        ELSE IF obj.k = "map" THEN SanitiseFields(h, v.a, f.Children, filter)
        ELSE h
SanitiseAll(h, vals, fields, filter) ==
    IF vals = <<>> THEN h
    ELSE LET v == Head(vals)
             h2 == IF IsRef(v) /\ h[v.a].k = "map"
                   THEN SanitiseFields(h, v.a, fields, filter)
                   ELSE h
         IN  SanitiseAll(h2, Tail(vals), fields, filter)

\* SanitiseComponentConfig(t, rawConfig, filter): the component's entry is
\* the value under its name
SanitiseComponentConfig(h, comp, rawConfig, filter) ==
    IF IsRef(rawConfig) /\ h[rawConfig.a].k = "map"
       /\ comp.Name \in DOMAIN h[rawConfig.a].m
    THEN SanitiseValue(h, h[rawConfig.a].m[comp.Name], comp.Config, filter)
    ELSE h

----------------------------------------------------------------------------
(* yaml nodes *)

MappingNode(content) == [Kind |-> "MappingNode", Content |-> content]
SequenceNode(content) == [Kind |-> "SequenceNode", Content |-> content]
ScalarNode(tag, value) == [Kind |-> "ScalarNode", Tag |-> tag, Value |-> value]
Entry(key, value) == [key |-> key, value |-> value]

\* the yaml node of a tree; map keys come out sorted
RECURSIVE TreeNode(_)
TreeNode(t) ==
    IF t.k = "map" THEN
        LET keys == SortedKeys(DOMAIN t.m)
        IN  MappingNode([n \in 1..Len(keys) |->
                            Entry(keys[n], TreeNode(t.m[keys[n]]))])
    ELSE IF t.k = "seq" THEN
        SequenceNode([n \in 1..Len(t.s) |-> TreeNode(t.s[n])])
    ELSE ScalarNode(t.k, t.v)

\* yaml.Marshal followed by yaml.Unmarshal into a Node: Content[0] of the
\* document node
YamlNode(h, v) == TreeNode(Snapshot(h, v))

\* Node Sorter: schema order first, unknown keys after, in their old order;
\* an error when a node's kind is not the one the schema implies
RECURSIVE SortFields(_, _), SortKnown(_, _), SortValue(_, _)
SortFields(node, fields) ==
    IF node.Kind # "MappingNode" THEN [err |-> TRUE, node |-> node]
    ELSE
        LET known == SortKnown(node.Content, fields)
            unknown == SelectSeq(node.Content,
                                 LAMBDA e : e.key \notin Names(fields))
        IN  [err |-> known.err, node |-> MappingNode(known.out \o unknown)]
SortKnown(content, fields) ==
    IF fields = <<>> THEN [err |-> FALSE, out |-> <<>>]
    ELSE
        LET f == Head(fields)
            found == SelectSeq(content, LAMBDA e : e.key = f.Name)
            rest == SortKnown(content, Tail(fields))
        IN  IF found = <<>> THEN rest
            ELSE
                LET sv == IF Len(f.Children) > 0
                          THEN SortValue(found[1].value, f)
                          ELSE [err |-> FALSE, node |-> found[1].value]
                IN  [err |-> sv.err \/ rest.err,
                     out |-> <<Entry(f.Name, sv.node)>> \o rest.out]
SortValue(node, f) ==
    IF f.IsArray THEN
        IF node.Kind # "SequenceNode" THEN [err |-> TRUE, node |-> node]
        ELSE
            LET r == [n \in 1..Len(node.Content) |->
                        SortFields(node.Content[n], f.Children)]
            IN  [err |-> \E n \in DOMAIN r : r[n].err,
                 node |-> SequenceNode([n \in DOMAIN r |-> r[n].node])]
    ELSE IF f.IsMap THEN
        IF node.Kind # "MappingNode" THEN [err |-> TRUE, node |-> node]
        ELSE
            LET r == [n \in 1..Len(node.Content) |->
                        SortFields(node.Content[n].value, f.Children)]
            IN  [err |-> \E n \in DOMAIN r : r[n].err,
                 node |-> MappingNode([n \in DOMAIN r |->
                            Entry(node.Content[n].key, r[n].node)])]
    ELSE SortFields(node, f.Children)

\* SortNode(t, node, true) on the root mapping
SortNode(comp, node) ==
    LET r == [n \in 1..Len(node.Content) |->
                IF node.Content[n].key = comp.Name
                   /\ Len(comp.Config.Children) > 0
                THEN SortValue(node.Content[n].value, comp.Config)
                ELSE [err |-> FALSE, node |-> node.Content[n].value]]
    IN  [err |-> \E n \in DOMAIN r : r[n].err,
         node |-> MappingNode([n \in DOMAIN r |->
                    Entry(node.Content[n].key, r[n].node)])]

\* func createOrderedConfig(t, rawExample, filter) (*yaml.Node, error);
\* h is the heap after the call, err = "" is Go's nil error.  The sanitiser
\* and the yaml encoder report no error on the values of the model, so the
\* error returns of lines 296-307 are not taken; those of lines 311-317 are.
createOrderedConfig(h, comp, rawExample, filter) ==
    LET rawConfig == iClone(h, rawExample)
        h2 == SanitiseComponentConfig(rawConfig.h, comp, rawConfig.v, filter)
        newNode == YamlNode(h2, rawConfig.v)
    IN  IF newNode.Kind # "MappingNode"
        THEN [err |-> "expected mapping node child kind", h |-> h2,
              node |-> Nil]
        ELSE LET sorted == SortNode(comp, newNode)
             IN  IF sorted.err
                 THEN [err |-> "sort", h |-> h2, node |-> Nil]
                 ELSE [err |-> "", h |-> h2, node |-> sorted.node]

----------------------------------------------------------------------------
(* Path Flattener: the walkFields closure of AsMarkdown *)

ArraySuffix == <<"[", "]">>
MapSuffix == <<".", "<", "n", "a", "m", "e", ">">>

\* a single child not descended into
DescendsIfSeveral(v) == Len(v.Children) > 1
\* the guard of the recursive call
Descends(v) == Len(v.Children) > 0

\* the container suffix left out
NewPathPlain(path, v) == path \o v.Name
\* newPath, before the "." separator is appended
NewPath(path, v) ==
    IF v.IsArray THEN path \o v.Name \o ArraySuffix
    ELSE IF v.IsMap THEN path \o v.Name \o MapSuffix
    ELSE path \o v.Name

RECURSIVE walkFields(_, _)
walkFields(path, f) ==
    IF f = <<>> THEN <<>>
    ELSE
        LET v == Head(f)
            newV == IF Len(path) > 0 THEN [v EXCEPT !.Name = path \o v.Name]
                    ELSE v
        IN  <<newV>>
            \o (IF Descends(v)
                THEN walkFields(NewPath(path, v) \o <<".">>, v.Children)
                ELSE <<>>)
            \o walkFields(path, Tail(f))

RootPath(config) ==
    IF config.IsArray THEN <<"[", "]", ".">>
    ELSE IF config.IsMap THEN <<"<", "n", "a", "m", "e", ">", ".">>
    ELSE <<>>

----------------------------------------------------------------------------
(* gabs: Container.Search / Path / Data / String *)

\* Search: every segment is a literal map key; a segment applied to a slice
\* must be a decimal index or "*", which no key of the model is, and a
\* segment applied to a scalar resolves to nothing.  Nil is a nil Data().
RECURSIVE gabsSearch(_, _, _)
gabsSearch(h, object, hierarchy) ==
    IF hierarchy = <<>> THEN object
    ELSE IF IsRef(object) /\ h[object.a].k = "map"
    THEN IF Head(hierarchy) \in DOMAIN h[object.a].m
         THEN gabsSearch(h, h[object.a].m[Head(hierarchy)], Tail(hierarchy))
         ELSE Nil
    ELSE Nil

\* Path(path) == Search(strings.Split(path, ".")...)
gabsPath(h, object, path) == gabsSearch(h, object, StringsSplit(path))

\* String(): the JSON text of a value
RECURSIVE ToJSON(_), JoinJSON(_, _)
ToJSON(t) ==
    IF t.k = "map" THEN
        LET keys == SortedKeys(DOMAIN t.m)
        IN  "{" \o JoinJSON([n \in 1..Len(keys) |->
                    "\"" \o Join(keys[n]) \o "\":" \o ToJSON(t.m[keys[n]])], ",")
            \o "}"
    ELSE IF t.k = "seq" THEN
        "[" \o JoinJSON([n \in 1..Len(t.s) |-> ToJSON(t.s[n])], ",") \o "]"
    ELSE IF t.k = "str" THEN "\"" \o t.v \o "\""
    ELSE IF t.k = "nil" THEN "null"
    ELSE t.v
JoinJSON(parts, sep) ==
    IF parts = <<>> THEN ""
    ELSE IF Len(parts) = 1 THEN parts[1]
    ELSE parts[1] \o sep \o JoinJSON(Tail(parts), sep)

----------------------------------------------------------------------------
(* Default Resolver and Type Inferrer: the body of the range loop *)

\* getFieldTypeFromInterface: the label of a literal and the array flag
getFieldTypeFromInterface(t) ==
    IF t.k = "seq"
    THEN [type |-> IF Len(t.s) > 0 /\ t.s[1].k \in {"str", "int", "float", "bool"}
                   THEN (IF t.s[1].k = "str" THEN "string" ELSE t.s[1].k)
                   ELSE IF Len(t.s) > 0 /\ t.s[1].k = "map" THEN "object"
                   ELSE "unknown",
          isArray |-> TRUE]
    ELSE [type |-> IF t.k = "str" THEN "string"
                   ELSE IF t.k = "map" THEN "object"
                   ELSE IF t.k = "nil" THEN "unknown"
                   ELSE t.k,
          isArray |-> FALSE]

\* the example consulted before the explicit default
DefaultFromExample(h, gConf, v) ==
    LET found == Snapshot(h, gabsPath(h, gConf, v.Name))
    IN  IF found # Nil THEN found ELSE v.Default
\* an absent value replaced by an empty string instead of being reported
DefaultOrEmpty(h, gConf, v) ==
    LET found == Snapshot(h, gabsPath(h, gConf, v.Name))
    IN  IF v.Default # Nil THEN v.Default
        ELSE IF found # Nil THEN found
        ELSE Scalar("str", "")
\* defaultValue := v.Default; if nil, gConf.Path(v.Name).Data()
DefaultValue(h, gConf, v) ==
    IF v.Default # Nil THEN v.Default
    ELSE Snapshot(h, gabsPath(h, gConf, v.Name))

\* the declared type shown whatever the container flags are
FieldTypeStrDeclaredFirst(v, defaultValue) ==
    LET inferred == IF Len(v.Examples) > 0
                    THEN getFieldTypeFromInterface(v.Examples[1])
                    ELSE getFieldTypeFromInterface(defaultValue)
    IN  IF v.Type # "" THEN v.Type
        ELSE IF v.IsMap THEN "object"
        ELSE IF inferred.isArray THEN "array"
        ELSE inferred.type
\* fieldTypeStr, lines 437-452
FieldTypeStr(v, defaultValue) ==
    LET inferred == IF Len(v.Examples) > 0
                    THEN getFieldTypeFromInterface(v.Examples[1])
                    ELSE getFieldTypeFromInterface(defaultValue)
        fieldType == IF v.Type = "" THEN inferred.type ELSE v.Type
        isArray == IF v.Type = "" THEN inferred.isArray ELSE v.IsArray
    IN  IF v.IsMap THEN "object"
        ELSE IF isArray THEN "array"
        ELSE fieldType

\* examples: one yaml document per example, keyed by the last path segment
FieldExamples(v) ==
    LET nameSplit == StringsSplit(v.Name)
        exampleName == nameSplit[Len(nameSplit)]
    IN  [n \in 1..Len(v.Examples) |->
            MappingNode(<<Entry(exampleName, TreeNode(v.Examples[n]))>>)]

\* "Sorry! This field is missing documentation."
Placeholder == <<"S", "o", "r", "r", "y", "!", " ", "T", "h", "i", "s", " ", "f", "i", "e", "l", "d", " ", "i", "s", " ", "m", "i", "s", "s", "i", "n", "g", " ", "d", "o", "c", "u", "m", "e", "n", "t", "a", "t", "i", "o", "n", ".">>

\* lines 482-488: placeholder, then the leading newline is dropped
FieldDescription(description) ==
    LET d == IF Len(description) = 0 THEN Placeholder ELSE description
    IN  IF d[1] = NL THEN Tail(d) ELSE d

FieldContext(v, defaultValue) ==
    [Name |-> v.Name,
     Type |-> FieldTypeStr(v, defaultValue),
     Description |-> FieldDescription(v.Description),
     Default |-> IF Len(v.Children) > 0 THEN "" ELSE ToJSON(defaultValue),
     Advanced |-> v.Advanced,
     Examples |-> FieldExamples(v)]

----------------------------------------------------------------------------
(* AsMarkdown *)

NoDoc == <<>>
Result(kind, err, field, doc) ==
    [kind |-> kind, err |-> err, field |-> field, doc |-> doc]
NoResult == Result("none", "", <<>>, NoDoc)

EmptyCtx ==
    [Name |-> <<>>, Type |-> <<>>, Summary |-> <<>>, Description |-> <<>>,
     Footnotes |-> <<>>, Status |-> "", CommonConfig |-> Nil,
     AdvancedConfig |-> Nil, Fields |-> <<>>]

\* only a leading empty line detected
SummaryStartsWithEmptyLine(summary) ==
    Len(summary) >= 2 /\ SubSeq(summary, 1, 2) = <<NL, NL>>
\* strings.Contains(c.Summary, "\n\n")
SummaryHasEmptyLine(summary) == StringsContains(summary, <<NL, NL>>)

\* s[1:] when s starts with a newline
StripLeadingNewline(s) == IF Len(s) > 0 /\ s[1] = NL THEN Tail(s) ELSE s

\* lines 355-376
CheckSummary ==
    /\ pc = "start"
    /\ IF SummaryHasEmptyLine(c.Summary)
       THEN /\ result' = Result("error", "summary containing empty lines",
                                <<>>, NoDoc)
            /\ pc' = "done"
            /\ ctx' = ctx
       ELSE /\ ctx' = [ctx EXCEPT !.Name = c.Name, !.Type = c.Type,
                                  !.Summary = c.Summary,
                                  !.Description = c.Description,
                                  !.Footnotes = c.Footnotes,
                                  !.Status = IF c.Status = "" THEN "stable"
                                             ELSE c.Status]
            /\ pc' = "genAdvanced"
            /\ result' = result
    /\ UNCHANGED <<c, nest, fullConfigExample, example0, heap, advConfig,
                   flattenedFields, i>>

\* genExampleConfigs, lines 324-328
GenAdvanced ==
    /\ pc = "genAdvanced"
    /\ LET r == createOrderedConfig(heap, c, fullConfigExample, "advanced")
       IN  /\ heap' = r.h
           /\ IF r.err # ""
              THEN /\ result' = Result("panic", r.err, <<>>, NoDoc)
                   /\ pc' = "done"
                   /\ advConfig' = advConfig
              ELSE /\ advConfig' = r.node
                   /\ pc' = "genCommon"
                   /\ result' = result
    /\ UNCHANGED <<c, nest, fullConfigExample, example0, ctx,
                   flattenedFields, i>>

\* map[string]interface{}{string(t): config} when nest is set
Nested(node) == IF nest THEN MappingNode(<<Entry(c.Type, node)>>) ELSE node

\* genExampleConfigs, lines 329-349, and the assignment of line 379; a
\* snippet is kept as the yaml node that config.MarshalYAML serialises
GenCommon ==
    /\ pc = "genCommon"
    /\ LET r == createOrderedConfig(heap, c, fullConfigExample, "common")
       IN  /\ heap' = r.h
           /\ IF r.err # ""
              THEN /\ result' = Result("panic", r.err, <<>>, NoDoc)
                   /\ pc' = "done"
                   /\ ctx' = ctx
              ELSE /\ ctx' = [ctx EXCEPT !.CommonConfig = Nested(r.node),
                                         !.AdvancedConfig = Nested(advConfig)]
                   /\ pc' = "walk"
                   /\ result' = result
    /\ UNCHANGED <<c, nest, fullConfigExample, example0, advConfig,
                   flattenedFields, i>>

\* lines 383-416
WalkFields ==
    /\ pc = "walk"
    /\ ctx' = [ctx EXCEPT !.Description = StripLeadingNewline(c.Description),
                          !.Footnotes = StripLeadingNewline(c.Footnotes)]
    /\ flattenedFields' = walkFields(RootPath(c.Config), c.Config.Children)
    /\ i' = 1
    /\ pc' = "fields"
    /\ UNCHANGED <<c, nest, fullConfigExample, example0, heap, advConfig,
                   result>>

\* gConf := gabs.Wrap(fullConfigExample).S(c.Name)
GConf == gabsSearch(heap, fullConfigExample, <<c.Name>>)

\* one iteration of the range loop, lines 419-491
ResolveField ==
    /\ pc = "fields"
    /\ i <= Len(flattenedFields)
    /\ LET v == flattenedFields[i]
           defaultValue == DefaultValue(heap, GConf, v)
       IN  IF v.Deprecated
           THEN /\ i' = i + 1
                /\ UNCHANGED <<ctx, pc, result>>
           ELSE IF defaultValue = Nil
           THEN /\ result' = Result("error", "not found in config example",
                                    v.Name, NoDoc)
                /\ pc' = "done"
                /\ UNCHANGED <<ctx, i>>
           ELSE /\ ctx' = [ctx EXCEPT !.Fields =
                               Append(@, FieldContext(v, defaultValue))]
                /\ i' = i + 1
                /\ UNCHANGED <<pc, result>>
    /\ UNCHANGED <<c, nest, fullConfigExample, example0, heap, advConfig,
                   flattenedFields>>

\* lines 493-496: the template is executed on ctx
Execute ==
    /\ pc = "fields"
    /\ i > Len(flattenedFields)
    /\ result' = Result("ok", "", <<>>, <<ctx>>)
    /\ pc' = "done"
    /\ UNCHANGED <<c, nest, fullConfigExample, example0, heap, advConfig,
                   ctx, flattenedFields, i>>

Next ==
    \/ CheckSummary
    \/ GenAdvanced
    \/ GenCommon
    \/ WalkFields
    \/ ResolveField
    \/ Execute

----------------------------------------------------------------------------
(* Inputs: components and examples the caller can pass *)

MaxFields == 2      \* fields below the root, default resolution
MaxNodes == 3       \* fields below the root, path flattening
MaxTypeFields == 1  \* fields below the root, type resolution
MaxDescFields == 2  \* fields below the root, descriptions
MaxDescLen == 2     \* characters of a field description
MaxSummaryLen == 3  \* characters of a summary

Letters == <<"a", "b", "c", "d", "e", "f", "g", "h">>

\* sibling names are unique: the name is set by the depth and the position
FieldName(depth, pos) == <<Letters[depth + pos - 1]>>

Strings(chars, n) == UNION {[1..len -> chars] : len \in 0..n}

Attr(type, description, default, advanced, deprecated, isArray, isMap, examples) ==
    FieldSpec(<<>>, type, description, default, advanced, deprecated,
              isArray, isMap, examples, <<>>)

IntDefault == Scalar("int", "7")
ListDefault == SeqTree(<<Scalar("str", "x")>>)
Doc == <<"d", "o", "c">>

\* forests of exactly n nodes whose nodes take their attributes from V
RECURSIVE Forests(_, _, _, _)
Forests(n, V, depth, pos) ==
    IF n = 0 THEN {<<>>}
    ELSE UNION {
            {<<[a EXCEPT !.Name = FieldName(depth, pos), !.Children = ch]>> \o rest :
                a \in V,
                ch \in Forests(size - 1, V, depth + 1, 1),
                rest \in Forests(n - size, V, depth, pos + 1)} :
            size \in 1..n}

ForestsUpTo(n, V) == UNION {Forests(size, V, 1, 1) : size \in 0..n}

ComponentName == <<"c">>
CacheType == <<"c", "a", "c", "h", "e">>

Component(summary, meta, root, children) ==
    [Name |-> ComponentName, Type |-> CacheType, Status |-> meta.Status,
     Summary |-> summary, Description |-> meta.Description,
     Footnotes |-> meta.Footnotes,
     Config |-> [root EXCEPT !.Children = children]]

Components(Summaries, Metas, Roots, Fields) ==
    {Component(summary, meta, root, children) :
        summary \in Summaries, meta \in Metas, root \in Roots,
        children \in Fields}

PlainMeta == [Status |-> "", Description |-> <<NL, "D">>, Footnotes |-> <<>>]
BetaMeta == [Status |-> "beta", Description |-> <<>>, Footnotes |-> <<NL, "F">>]

ObjectRoot == Attr("", <<>>, Nil, FALSE, FALSE, FALSE, FALSE, <<>>)
ArrayRoot == Attr("", <<>>, Nil, FALSE, FALSE, TRUE, FALSE, <<>>)
MapRoot == Attr("", <<>>, Nil, FALSE, FALSE, FALSE, TRUE, <<>>)

\* examples: what a caller may hold at a field
Absent == [k |-> "absent"]
MapKey == <<"k">>

LeafValue(f) ==
    IF f.IsArray THEN SeqTree(<<Scalar("str", "x")>>)
    ELSE IF f.IsMap THEN MapTree(MapKey :> Scalar("int", "1"))
    ELSE Scalar("int", "1")

Shaped(f, m) ==
    IF f.IsArray THEN SeqTree(<<MapTree(m)>>)
    ELSE IF f.IsMap THEN MapTree(MapKey :> MapTree(m))
    ELSE MapTree(m)

RECURSIVE ExampleMaps(_, _), FieldValues(_, _)
ExampleMaps(fields, mode) ==
    IF fields = <<>> THEN {<<>>}
    ELSE {IF val = Absent THEN rest ELSE (Head(fields).Name :> val) @@ rest :
            val \in FieldValues(Head(fields), mode),
            rest \in ExampleMaps(Tail(fields), mode)}
FieldValues(f, mode) ==
    (IF Len(f.Children) = 0 THEN {LeafValue(f)}
     ELSE {Shaped(f, m) : m \in ExampleMaps(f.Children, mode)}
          \cup (IF mode = "all" THEN {Scalar("str", "x")} ELSE {}))
    \cup (IF mode = "all" THEN {Absent} ELSE {})

RootExamples(comp, mode) ==
    {IF val = Absent THEN MapTree(<<>>) ELSE MapTree(comp.Name :> val) :
        val \in FieldValues(comp.Config, mode)}
    \cup (IF mode = "all" THEN {Scalar("str", "x")} ELSE {})

InitWith(Comps, mode, Nests) ==
    /\ c \in Comps
    /\ nest \in Nests
    /\ example0 \in RootExamples(c, mode)
    /\ LET r == Load(<<>>, example0)
       IN  heap = r.h /\ fullConfigExample = r.v
    /\ pc = "start"
    /\ advConfig = Nil
    /\ ctx = EmptyCtx
    /\ flattenedFields = <<>>
    /\ i = 0
    /\ result = NoResult

\* default resolution, sanitising, snippet failures
DefaultAttrs ==
    {Attr("", Doc, Nil, FALSE, FALSE, FALSE, FALSE, <<>>),
     Attr("", Doc, IntDefault, FALSE, FALSE, FALSE, FALSE, <<>>),
     Attr("", Doc, Nil, FALSE, FALSE, TRUE, FALSE, <<>>),
     Attr("", Doc, Nil, FALSE, FALSE, FALSE, TRUE, <<>>),
     Attr("", Doc, Nil, TRUE, FALSE, FALSE, FALSE, <<>>),
     Attr("", Doc, Nil, FALSE, TRUE, FALSE, FALSE, <<>>)}

Init ==
    InitWith(Components({<<"s">>, <<"s", NL, NL, "s">>}, {PlainMeta},
                        {ObjectRoot, ArrayRoot},
                        ForestsUpTo(MaxFields, DefaultAttrs)),
             "all", BOOLEAN)

Spec == Init /\ [][Next]_vars

\* path flattening: every shape, deprecated fields, every default explicit
FlattenAttrs ==
    {Attr("", Doc, IntDefault, FALSE, FALSE, FALSE, FALSE, <<>>),
     Attr("", Doc, IntDefault, FALSE, FALSE, TRUE, FALSE, <<>>),
     Attr("", Doc, IntDefault, FALSE, FALSE, FALSE, TRUE, <<>>),
     Attr("", Doc, IntDefault, FALSE, TRUE, FALSE, FALSE, <<>>)}

InitFlatten ==
    InitWith(Components({<<"s">>}, {PlainMeta},
                        {ObjectRoot, ArrayRoot, MapRoot},
                        ForestsUpTo(MaxNodes, FlattenAttrs)),
             "full", {FALSE})

SpecFlatten == InitFlatten /\ [][Next]_vars

\* type resolution: declared and undeclared types, shapes, examples, defaults
TypeAttrs ==
    {Attr(type, Doc, default, FALSE, FALSE, shape[1], shape[2], examples) :
        type \in {"", "string"},
        default \in {Nil, IntDefault, ListDefault},
        shape \in {<<FALSE, FALSE>>, <<TRUE, FALSE>>, <<FALSE, TRUE>>},
        examples \in {<<>>, <<Scalar("bool", "true")>>, <<ListDefault>>}}

InitType ==
    InitWith(Components({<<"s">>}, {PlainMeta}, {ObjectRoot},
                        ForestsUpTo(MaxTypeFields, TypeAttrs)),
             "full", {FALSE})

SpecType == InitType /\ [][Next]_vars

\* field descriptions
DescAttrs ==
    {Attr("", description, IntDefault, FALSE, FALSE, FALSE, FALSE, <<>>) :
        description \in Strings({NL, "d"}, MaxDescLen)}

InitDesc ==
    InitWith(Components({<<"s">>}, {PlainMeta, BetaMeta}, {ObjectRoot},
                        ForestsUpTo(MaxDescFields, DescAttrs)),
             "full", {FALSE})

SpecDesc == InitDesc /\ [][Next]_vars

\* summaries
InitSummary ==
    InitWith(Components(Strings({NL, "s"}, MaxSummaryLen),
                        {PlainMeta, BetaMeta}, {ObjectRoot},
                        ForestsUpTo(1, DefaultAttrs)),
             "all", BOOLEAN)

SpecSummary == InitSummary /\ [][Next]_vars

----------------------------------------------------------------------------
(* Properties *)

Done == pc = "done"
Walked == i >= 1
MissingDefault == "not found in config example"
SummaryError == "summary containing empty lines"

Flat(n) == flattenedFields[n]
FlatIndex == 1..Len(flattenedFields)
EntryIndex == 1..Len(ctx.Fields)

\* the flattened field an entry was built from
Source(e) == CHOOSE v \in {Flat(n) : n \in FlatIndex} : v.Name = e.Name

\* the objects of the caller's example
OriginalHeap == Load(<<>>, example0).h

\* C1: a failing snippet generation makes AsMarkdown return an error value;
\* the call never ends in a panic.
C1_SnippetFailureIsReturned ==
    Done => /\ result.kind \in {"ok", "error"}
            /\ (result.kind = "error" => result.doc = NoDoc)

\* the reading of a dotted path that skips the synthetic segments: "x[]" is
\* the first element of the slice under x, "<name>" is an existing key
EndsWithArraySuffix(seg) ==
    Len(seg) >= 2 /\ SubSeq(seg, Len(seg) - 1, Len(seg)) = ArraySuffix
IsNameMarker(seg) == seg = Tail(MapSuffix)
HasSynthetic(path) ==
    \E n \in 1..Len(StringsSplit(path)) :
        \/ EndsWithArraySuffix(StringsSplit(path)[n])
        \/ IsNameMarker(StringsSplit(path)[n])

FirstElement(t) == IF t.k = "seq" /\ Len(t.s) > 0 THEN t.s[1] ELSE Nil

RECURSIVE SkippingLookup(_, _)
SkippingLookup(t, segs) ==
    IF segs = <<>> THEN t
    ELSE
        LET seg == Head(segs) IN
        IF IsNameMarker(seg) THEN
            IF t.k = "map" /\ DOMAIN t.m # {}
            THEN SkippingLookup(t.m[CHOOSE key \in DOMAIN t.m : TRUE], Tail(segs))
            ELSE Nil
        ELSE IF seg = ArraySuffix THEN SkippingLookup(FirstElement(t), Tail(segs))
        ELSE IF EndsWithArraySuffix(seg) THEN
            LET key == SubSeq(seg, 1, Len(seg) - 2) IN
            IF t.k = "map" /\ key \in DOMAIN t.m
            THEN SkippingLookup(FirstElement(t.m[key]), Tail(segs))
            ELSE Nil
        ELSE IF t.k = "map" /\ seg \in DOMAIN t.m
        THEN SkippingLookup(t.m[seg], Tail(segs))
        ELSE Nil

ExampleAt(path) ==
    IF example0.k = "map" /\ c.Name \in DOMAIN example0.m
    THEN SkippingLookup(example0.m[c.Name], StringsSplit(path))
    ELSE Nil

\* C2: a non-deprecated field without explicit default whose path has a
\* synthetic segment takes its default from the first element / an existing
\* key of the example; when the example holds a value there, no missing
\* default is reported for it and its entry shows that value.
C2_SyntheticSegmentsAreSkipped ==
    \A n \in FlatIndex :
        (/\ ~Flat(n).Deprecated
         /\ Flat(n).Default = Nil
         /\ HasSynthetic(Flat(n).Name)
         /\ ExampleAt(Flat(n).Name) # Nil)
        => /\ ~(result.err = MissingDefault /\ result.field = Flat(n).Name)
           /\ \A m \in EntryIndex :
                (ctx.Fields[m].Name = Flat(n).Name /\ Len(Flat(n).Children) = 0)
                => ctx.Fields[m].Default = ToJSON(ExampleAt(Flat(n).Name))

\* the fields of the component that have neither a default nor a value in
\* the example, in flattened order
AllFlattened == walkFields(RootPath(c.Config), c.Config.Children)
Unresolvable(v) ==
    /\ ~v.Deprecated
    /\ v.Default = Nil
    /\ Snapshot(OriginalHeap,
                gabsPath(OriginalHeap,
                         gabsSearch(OriginalHeap, fullConfigExample, <<c.Name>>),
                         v.Name)) = Nil
UnresolvableIndex == {n \in 1..Len(AllFlattened) : Unresolvable(AllFlattened[n])}
FirstUnresolvable ==
    AllFlattened[CHOOSE n \in UnresolvableIndex :
                    \A m \in UnresolvableIndex : n <= m]

\* C3 as stated: whenever some field is unresolvable, the call returns the
\* missing-default error and no document.
C3_MissingDefaultErrorAlways ==
    (Done /\ UnresolvableIndex # {})
    => /\ result.kind = "error"
       /\ result.err = MissingDefault
       /\ result.doc = NoDoc

HasBlankLine(summary) ==
    \E n \in 1..(Len(summary) - 1) : summary[n] = NL /\ summary[n + 1] = NL

\* C3 amended: whenever some field is unresolvable the call yields no
\* document and no entry for such a field; it ends with the summary error
\* when the summary has a blank line, with a panic when snippet generation
\* fails, and otherwise with the missing-default error naming the first
\* unresolvable field in flattened order.
C3_MissingDefaultNeverSilent ==
    (UnresolvableIndex # {})
    => /\ result.kind # "ok"
       /\ result.doc = NoDoc
       /\ \A m \in EntryIndex : \A n \in UnresolvableIndex :
            ctx.Fields[m].Name # AllFlattened[n].Name
       /\ Done =>
            \/ HasBlankLine(c.Summary) /\ result.kind = "error"
               /\ result.err = SummaryError
            \/ ~HasBlankLine(c.Summary) /\ result.kind = "panic"
               /\ ctx.CommonConfig = Nil
            \/ /\ ~HasBlankLine(c.Summary)
               /\ result = Result("error", MissingDefault,
                                  FirstUnresolvable.Name, NoDoc)

C3_Witness ==
    /\ Done
    /\ result.err = MissingDefault
    /\ Len(ctx.Fields) > 0
    /\ Len(result.field) > 1

\* C4: a field with an explicit default shows that default whatever the
\* example holds at its path, and is never reported as missing a default.
C4_ExplicitDefaultWins ==
    /\ \A m \in EntryIndex :
        Source(ctx.Fields[m]).Default # Nil
        => ctx.Fields[m].Default =
              IF Len(Source(ctx.Fields[m]).Children) > 0 THEN ""
              ELSE ToJSON(Source(ctx.Fields[m]).Default)
    /\ \A n \in FlatIndex :
        (result.err = MissingDefault /\ result.field = Flat(n).Name)
        => Flat(n).Default = Nil

\* an entry built from an explicit default while the example holds another
\* value at the same path, and one built while the path is absent
C4_Witness ==
    /\ result.kind = "ok"
    /\ \E m \in EntryIndex :
        /\ Source(ctx.Fields[m]).Default = IntDefault
        /\ ctx.Fields[m].Default = "7"
        /\ ExampleAt(ctx.Fields[m].Name) = Scalar("int", "1")
    /\ \E m \in EntryIndex :
        /\ Source(ctx.Fields[m]).Default = IntDefault
        /\ ExampleAt(ctx.Fields[m].Name) = Nil

\* C8: the caller's example is never altered: its objects keep their
\* contents, so the value it denotes stays the one the caller built.
C8_ExampleUntouched ==
    /\ \A a \in 1..Len(OriginalHeap) : heap[a] = OriginalHeap[a]
    /\ Snapshot(heap, fullConfigExample) = example0

\* both snippets were generated, the common copy was pruned, and the call
\* went on to resolve defaults from the example
C8_Witness ==
    /\ result.kind = "ok"
    /\ Len(heap) > Len(OriginalHeap)
    /\ Snapshot(heap, Ref(Len(heap))) # example0
    /\ Len(ctx.Fields) > 0

\* C5 as stated: a declared type is displayed as it is, whatever the
\* isArray and isMap flags are.
C5_DeclaredTypeIsDisplayed ==
    \A m \in EntryIndex :
        Source(ctx.Fields[m]).Type # ""
        => ctx.Fields[m].Type = Source(ctx.Fields[m]).Type

\* the label of a literal: "array" for a sequence, else its scalar label
LiteralLabel(t) ==
    IF getFieldTypeFromInterface(t).isArray THEN "array"
    ELSE getFieldTypeFromInterface(t).type

\* the value an entry's default was resolved to
ResolvedDefault(v) ==
    IF v.Default # Nil THEN v.Default
    ELSE Snapshot(OriginalHeap,
                  gabsPath(OriginalHeap,
                           gabsSearch(OriginalHeap, fullConfigExample, <<c.Name>>),
                           v.Name))

\* C5 amended: the display type is "object" for an isMap field and "array"
\* for a typed isArray field, both overriding the declared type; otherwise
\* it is the declared type; with no declared type it is inferred from
\* examples[0] when there are examples and else from the resolved default.
C5_DisplayType ==
    \A m \in EntryIndex :
        LET v == Source(ctx.Fields[m]) IN
        ctx.Fields[m].Type =
            IF v.IsMap THEN "object"
            ELSE IF v.Type # "" THEN (IF v.IsArray THEN "array" ELSE v.Type)
            ELSE IF Len(v.Examples) > 0 THEN LiteralLabel(v.Examples[1])
            ELSE LiteralLabel(ResolvedDefault(v))

\* a typed array field shown as "array", a typed map field shown as
\* "object", and an untyped field whose example and default disagree
C5_Witness ==
    /\ result.kind = "ok"
    /\ \E m \in EntryIndex :
        LET v == Source(ctx.Fields[m]) IN
        /\ v.Type = "string" /\ v.IsArray /\ ctx.Fields[m].Type = "array"
        /\ v.Examples = <<>> /\ v.Default = IntDefault

C5_WitnessInferred ==
    /\ result.kind = "ok"
    /\ \E m \in EntryIndex :
        LET v == Source(ctx.Fields[m]) IN
        /\ v.Type = "" /\ ~v.IsMap /\ ctx.Fields[m].Type = "bool"
        /\ v.Default = ListDefault

\* positions of the nodes below the root: child indices from the root down
RECURSIVE Positions(_), NodeAt(_, _), PosLess(_, _)
Positions(fields) ==
    UNION {{<<n>>} \cup {<<n>> \o p : p \in Positions(fields[n].Children)} :
            n \in 1..Len(fields)}
NodeAt(fields, p) ==
    IF Len(p) = 1 THEN fields[p[1]]
    ELSE NodeAt(fields[p[1]].Children, Tail(p))
\* pre-order: a node before its descendants, siblings in declaration order
PosLess(p, q) ==
    IF p = <<>> THEN q # <<>>
    ELSE IF q = <<>> THEN FALSE
    ELSE IF p[1] = q[1] THEN PosLess(Tail(p), Tail(q))
    ELSE p[1] < q[1]

SchemaPositions == Positions(c.Config.Children)
SchemaNode(p) == NodeAt(c.Config.Children, p)
Rank(p) == Cardinality({q \in SchemaPositions : PosLess(q, p)}) + 1

\* C6 as stated: the flattened sequence is as long as the Schema Tree has
\* nodes, the root c.Config included.
C6_LengthIsNodeCount ==
    Walked => Len(flattenedFields) = 1 + Cardinality(SchemaPositions)

\* C6 amended: the flattened sequence has one descriptor per node below the
\* anonymous root, in pre-order, each carrying its node's attributes.
C6_PreOrderBelowRoot ==
    Walked =>
        /\ Len(flattenedFields) = Cardinality(SchemaPositions)
        /\ \A p \in SchemaPositions :
            [Flat(Rank(p)) EXCEPT !.Name = SchemaNode(p).Name] = SchemaNode(p)

\* three levels, a node with two children, and a deprecated field
C6_Witness ==
    /\ Walked
    /\ Len(flattenedFields) = 3
    /\ <<1, 1, 1>> \in SchemaPositions
    /\ Flat(2).Deprecated

C6_WitnessSiblings ==
    /\ Walked
    /\ {<<1, 1>>, <<1, 2>>} \subseteq SchemaPositions

\* the segment a node contributes to the paths of its descendants
Segment(v) ==
    IF v.IsArray THEN v.Name \o <<"[", "]">>
    ELSE IF v.IsMap THEN v.Name \o <<".">> \o <<"<", "n", "a", "m", "e", ">">>
    ELSE v.Name

RootSegments ==
    IF c.Config.IsArray THEN <<<<"[", "]">>>>
    ELSE IF c.Config.IsMap THEN <<<<"<", "n", "a", "m", "e", ">">>>>
    ELSE <<>>

PathSegments(p) ==
    RootSegments
    \o [n \in 1..Len(p) |->
            IF n < Len(p) THEN Segment(SchemaNode(SubSeq(p, 1, n)))
            ELSE SchemaNode(p).Name]

RECURSIVE DotJoin(_)
DotJoin(segs) ==
    IF Len(segs) = 1 THEN segs[1]
    ELSE segs[1] \o <<".">> \o DotJoin(Tail(segs))

\* C7: a descriptor's path is the "."-joined segments of its ancestors and
\* its own name; an array ancestor contributes name[], a map ancestor
\* name.<name>, the root nothing unless it is array- or map-shaped.
C7_DottedPaths ==
    Walked =>
        \A p \in SchemaPositions : Flat(Rank(p)).Name = DotJoin(PathSegments(p))

\* the root with one array-shaped field holding one child: a and a[].b
C7_Witness ==
    /\ Walked
    /\ ~c.Config.IsArray /\ ~c.Config.IsMap
    /\ Len(flattenedFields) = 2
    /\ Flat(1).IsArray
    /\ Flat(1).Name = <<"a">>
    /\ Flat(2).Name = <<"a", "[", "]", ".", "b">>

C7_WitnessMapRoot ==
    /\ Walked
    /\ c.Config.IsMap
    /\ \E n \in FlatIndex :
        Flat(n).Name = <<"<", "n", "a", "m", "e", ">", ".", "a", ".",
                         "<", "n", "a", "m", "e", ">", ".", "b", ".", "c">>

\* C9: a summary with a blank line makes AsMarkdown return an error and no
\* document before anything else is done: nothing is cloned, flattened or
\* resolved.
C9_BlankLineSummaryRejected ==
    HasBlankLine(c.Summary) =>
        /\ pc \in {"start", "done"}
        /\ heap = OriginalHeap
        /\ ctx = EmptyCtx
        /\ flattenedFields = <<>>
        /\ Done => result = Result("error", SummaryError, <<>>, NoDoc)

\* rejected although the example is no mapping, which fails snippet
\* generation, and although the blank line is not at the start
C9_Witness ==
    /\ Done
    /\ result.err = SummaryError
    /\ c.Summary = <<"s", NL, NL>>
    /\ example0 = Scalar("str", "x")
    /\ nest

\* C10: every field entry handed to the template has a non-empty
\* description, also after the leading newline is dropped.
C10_DescriptionNeverEmpty ==
    \A m \in EntryIndex : Len(ctx.Fields[m].Description) > 0

====
